---- MODULE Spec2Model ----
(***************************************************************************)
(* A model of libssh-rs (src/libssh-rs/src/lib.rs): the process-wide       *)
(* engine lifecycle guard (INIT / LIB / initialize), the shared ownership  *)
(* of the engine session handle (Arc<SessionHolder>, Session, Channel),    *)
(* and the translation of engine results into SshResult values             *)
(* (last_error, basic_status, auth_result and the operations using them).  *)
(*                                                                         *)
(* The engine (libssh, reached through the sys bindings) is external.     *)
(* Every engine call is modelled as a nondeterministic choice among the    *)
(* outcomes the call site in lib.rs distinguishes: its result value and    *)
(* what it does to the session's last-error slot.  What the engine keeps   *)
(* per session is modelled too: whether it is connected, its option store  *)
(* (one field per SSH_OPTIONS_* key) and its keyboard-interactive prompts  *)
(* and answers.                                                            *)
(***************************************************************************)
EXTENDS Integers, FiniteSets, Sequences, TLC

(* ------------------------------ bounds -------------------------------- *)
\* number of threads that call Session::new
NThreads == 2
\* total number of Session::new calls made by the process
MaxCalls == 3
\* number of handles ssh_new can hand out before it reports exhaustion (null)
MaxHandles == 2
\* number of Channel values that may be alive for one session at a time
MaxChan == 2

Threads == 1..NThreads
Handles == 1..MaxHandles

(* ------------------------ engine constants ---------------------------- *)
SSH_OK == 0
SSH_ERROR == -1
SSH_AGAIN == -2

SSH_NO_ERROR == 0
SSH_REQUEST_DENIED == 1
SSH_FATAL == 2
SSH_EINTR == 3

SSH_AUTH_SUCCESS == 0
SSH_AUTH_DENIED == 1
SSH_AUTH_PARTIAL == 2
SSH_AUTH_INFO == 3
SSH_AUTH_AGAIN == 4
SSH_AUTH_ERROR == -1
\* a result outside ssh_auth_e, answered by the `_` arm of auth_result
SSH_AUTH_UNKNOWN == 5
\* ssh_known_hosts_e, the results of ssh_session_is_known_server
SSH_KNOWN_HOSTS_ERROR == -2
SSH_KNOWN_HOSTS_NOT_FOUND == -1
SSH_KNOWN_HOSTS_UNKNOWN == 0
SSH_KNOWN_HOSTS_OK == 1
SSH_KNOWN_HOSTS_CHANGED == 2
SSH_KNOWN_HOSTS_OTHER == 3

\* the null pointer: as a C string or channel pointer, and as a session handle
NULL == "null"
NULL_SESSION == 0

(* ------------------------------ state --------------------------------- *)
VARIABLES
    INIT,       \* static INIT: Once -- "Incomplete", "Running" or "Complete"
    LIB,        \* static mut LIB: Option<LibraryState> -- "None" or "Some"
    nInit,      \* number of sys::ssh_init() calls made so far
    nFinalize,  \* number of sys::ssh_finalize() calls made so far
    exited,     \* the process has ended
    pc,         \* pc[t]: where thread t stands inside Session::new
    calls,      \* number of Session::new calls started so far
    ret,        \* ret[t]: what thread t's latest Session::new returned
    handle,     \* handle[h]: "unused", "live" (returned by ssh_new) or "freed"
    nFree,      \* nFree[h]: number of sys::ssh_free(h) calls
    strong,     \* strong[h]: strong count of the Arc<SessionHolder> holding h
    sessAlive,  \* sessAlive[h]: the Session value wrapping h has not been dropped
    nChan,      \* nChan[h]: number of live Channel values created from h
    slot,       \* slot[h]: the engine's last-error slot of session h
    blocking,   \* blocking[h]: the session's blocking mode
    last,       \* the latest session operation: its engine result and its return
    connected,  \* connected[h]: the engine holds a connection for session h
    cfg,        \* cfg[h]: the engine's option store of session h, one field per key
    authst,     \* authst[h]: the engine's keyboard-interactive exchange of session h
    ghost       \* ghost[h]: history of session h the claims speak about

lifeVars == <<INIT, LIB, nInit, nFinalize, exited, pc, calls, ret>>
ownVars == <<handle, nFree, strong, sessAlive, nChan>>
errVars == <<slot, blocking, last>>
engVars == <<connected, cfg, authst, ghost>>
vars == <<INIT, LIB, nInit, nFinalize, exited, pc, calls, ret,
          handle, nFree, strong, sessAlive, nChan, slot, blocking, last,
          connected, cfg, authst, ghost>>

(* ----------------------------- results -------------------------------- *)
\* SshResult values: kind is "Ok", "TryAgain", "RequestDenied" or "Fatal";
\* reason is the String carried by RequestDenied / Fatal; val is the Ok payload.
Ok(v) == [kind |-> "Ok", reason |-> "", val |-> v]
TryAgain == [kind |-> "TryAgain", reason |-> "", val |-> "-"]
RequestDenied(r) == [kind |-> "RequestDenied", reason |-> r, val |-> "-"]
Fatal(r) == [kind |-> "Fatal", reason |-> r, val |-> "-"]
\* a thread that has not returned from Session::new yet
NoRet == [kind |-> "none", reason |-> "", val |-> "-"]

IsErr(r) == r.kind \in {"TryAgain", "RequestDenied", "Fatal"}

(* ------------------------ engine lifecycle guard ---------------------- *)
\* LibraryState::new: Some(Self) iff ssh_init returned SSH_OK
LibraryState_new(res) == IF res # SSH_OK THEN "None" ELSE "Some"

\* Drop for LibraryState: one ssh_finalize per dropped Some(LibraryState)
LibraryState_drop(lib) == IF lib = "Some" THEN 1 ELSE 0

\* Session::new is entered: initialize() is called
Session_new_call(t) ==
    /\ ~exited
    /\ pc[t] = "idle"
    /\ calls < MaxCalls
    /\ calls' = calls + 1
    /\ pc' = [pc EXCEPT ![t] = "call_once"]
    /\ ret' = [ret EXCEPT ![t] = NoRet]
    /\ UNCHANGED <<INIT, LIB, nInit, nFinalize, exited>>
    /\ UNCHANGED ownVars
    /\ UNCHANGED errVars
    /\ UNCHANGED engVars

\* A call_once that goes wrong: any thread that finds the closure not yet
\* finished runs it.
call_once_unguarded(t) ==
    /\ ~exited
    /\ pc[t] = "call_once"
    /\ \/ /\ INIT \in {"Incomplete", "Running"}
          /\ INIT' = "Running"
          /\ pc' = [pc EXCEPT ![t] = "closure"]
       \/ /\ INIT = "Complete"
          /\ INIT' = INIT
          /\ pc' = [pc EXCEPT ![t] = "check"]
    /\ UNCHANGED <<LIB, nInit, nFinalize, exited, calls, ret>>
    /\ UNCHANGED ownVars
    /\ UNCHANGED errVars
    /\ UNCHANGED engVars

\* INIT.call_once(..): the first caller takes the gate and runs the closure;
\* a caller that finds the closure running waits (the action is disabled);
\* a caller that finds it complete goes on without running anything.
call_once(t) ==
    /\ ~exited
    /\ pc[t] = "call_once"
    /\ \/ /\ INIT = "Incomplete"
          /\ INIT' = "Running"
          /\ pc' = [pc EXCEPT ![t] = "closure"]
       \/ /\ INIT = "Complete"
          /\ INIT' = INIT
          /\ pc' = [pc EXCEPT ![t] = "check"]
    /\ UNCHANGED <<LIB, nInit, nFinalize, exited, calls, ret>>
    /\ UNCHANGED ownVars
    /\ UNCHANGED errVars
    /\ UNCHANGED engVars

\* the closure: LIB = LibraryState::new(); the assignment drops the old LIB
closure(t, res) ==
    /\ ~exited
    /\ pc[t] = "closure"
    /\ nInit' = nInit + 1
    /\ nFinalize' = nFinalize + LibraryState_drop(LIB)
    /\ LIB' = LibraryState_new(res)
    /\ INIT' = "Complete"
    /\ pc' = [pc EXCEPT ![t] = "check"]
    /\ UNCHANGED <<exited, calls, ret>>
    /\ UNCHANGED ownVars
    /\ UNCHANGED errVars
    /\ UNCHANGED engVars

\* An initialize that does not look at LIB after the gate.
initialize_result_unchecked(lib) == Ok("unit")

\* what initialize() returns, from LIB
initialize_result(lib) ==
    IF lib = "None" THEN Fatal("ssh_init failed") ELSE Ok("unit")

\* the rest of initialize() and the `?` in Session::new
initialize_check(t) ==
    /\ ~exited
    /\ pc[t] = "check"
    /\ IF IsErr(initialize_result(LIB))
         THEN /\ ret' = [ret EXCEPT ![t] = initialize_result(LIB)]
              /\ pc' = [pc EXCEPT ![t] = "idle"]
         ELSE /\ ret' = ret
              /\ pc' = [pc EXCEPT ![t] = "ssh_new"]
    /\ UNCHANGED <<INIT, LIB, nInit, nFinalize, exited, calls>>
    /\ UNCHANGED ownVars
    /\ UNCHANGED errVars
    /\ UNCHANGED engVars

(* -------------------------- the last-error slot ----------------------- *)
\* reasons the engine may record: C strings, one of them not valid UTF-8
Reasons == {"Hostname required", "denied\\xFF"}

\* a slot that reports no error (what a session returned by ssh_new holds)
NoError == [code |-> SSH_NO_ERROR, reason |-> NULL]

\* the error records the engine may leave in a session's slot
EngineErrors ==
    {[code |-> c, reason |-> r] :
        c \in {SSH_REQUEST_DENIED, SSH_FATAL, SSH_EINTR}, r \in Reasons \cup {NULL}}

\* What one engine call does to the slot: it leaves it alone, or records an
\* error, or (Clear) resets it to no-error.
Keep == [write |-> FALSE, code |-> SSH_NO_ERROR, reason |-> NULL]
Clear == [write |-> TRUE, code |-> SSH_NO_ERROR, reason |-> NULL]
Record(e) == [write |-> TRUE, code |-> e.code, reason |-> e.reason]
\* effects of a call that fails
FailWrites == {Keep} \cup {Record(e) : e \in EngineErrors}
\* a smaller choice of the same, for runs that are about ownership
FewFailWrites == {Keep, Record([code |-> SSH_FATAL, reason |-> "Hostname required"])}

SlotAfter(s, w) == IF w.write THEN [code |-> w.code, reason |-> w.reason] ELSE s

(* --------------------- the engine's state of a session ---------------- *)
\* what the engine puts where the caller passed a null pointer
LocalUser == "<local user>"
DefaultPath == "<default path>"

\* the option store of a session ssh_new returned: no host, no user, no socket
FreshCfg ==
    [host |-> NULL, port |-> 22, log |-> 0, bindaddr |-> NULL, identities |-> <<>>,
     user |-> NULL, sshdir |-> NULL, knownhosts |-> NULL, fd |-> -1, timeout |-> 0]

\* no keyboard-interactive exchange is open: no prompts, no answers recorded
FreshAuth == [open |-> FALSE, nprompts |-> 0, answers |-> <<>>]

\* history: the latest User argument a successful set_option was given, the
\* connections closed by disconnect, whether userauth_none was called
FreshGhost ==
    [userSet |-> FALSE, userArg |-> <<>>, cycles |-> 0, noneCalled |-> FALSE]

\* every handle ssh_new may return carries a fresh, unconnected session
FreshEngine ==
    /\ connected = [h \in Handles |-> FALSE]
    /\ cfg = [h \in Handles |-> FreshCfg]
    /\ authst = [h \in Handles |-> FreshAuth]
    /\ ghost = [h \in Handles |-> FreshGhost]

\* an SshOption value: s holds the string payload (<<>> is None, <<x>> is
\* Some(x) or a plain String x, or the LogLevel's name), n the numeric payload
Option(opt, s, n) == [opt |-> opt, s |-> s, n |-> n]
NoOption == Option("none", <<>>, 0)

\* the record of a session operation kept in `last`: opt is the SshOption
\* passed, called tells whether the engine was called at all, rep whether the
\* call repeats the successful set_option just before it, changed whether
\* the option store differs after it, bits the bit set of a returned AuthMethods,
\* info the prompts of a returned InteractiveAuthInfo, ans the answers passed
\* to set_answers and stop the index at which its loop stopped, hash the
\* PublicKeyHashType asked for, bytes the digest and hexa the characters of
\* the string the key operations obtained, reqs the
\* engine requests the call issued, in order: one, named like the operation,
\* unless the operation says otherwise
Call(op, h, arg, res, chan, port, w, timeout, r) ==
    [op |-> op, h |-> h, arg |-> arg, res |-> res, chan |-> chan, port |-> port,
     wrote |-> w.write, timeout |-> timeout, ret |-> r,
     opt |-> NoOption, called |-> TRUE, rep |-> FALSE, changed |-> FALSE, bits |-> {},
     info |-> <<>>, ans |-> <<>>, stop |-> 0, hash |-> "n/a", bytes |-> <<>>,
     hexa |-> <<>>, dur |-> <<>>,
     reqs |-> IF op = "none" THEN <<>> ELSE <<[fn |-> op, idx |-> 0]>>]
NoCall == Call("none", 0, 0, 0, "n/a", 0, Keep, FALSE, NoRet)

(* ------------------- Session::new, ownership, drops ------------------- *)
\* the handles ssh_new may return: null, or the next handle never returned yet
ssh_new_results ==
    {NULL_SESSION} \cup
        {h \in Handles : handle[h] = "unused" /\ \A g \in 1..(h - 1) : handle[g] # "unused"}

\* A Session::new that wraps whatever ssh_new returned, null included.
Session_new_alloc_unchecked(t, sess) ==
    /\ ~exited
    /\ pc[t] = "ssh_new"
    /\ sess \in ssh_new_results
    /\ pc' = [pc EXCEPT ![t] = "idle"]
    /\ ret' = [ret EXCEPT ![t] = Ok("Session")]
    /\ IF sess = NULL_SESSION
         THEN UNCHANGED <<handle, strong, sessAlive, slot, blocking>>
         ELSE /\ handle' = [handle EXCEPT ![sess] = "live"]
              /\ strong' = [strong EXCEPT ![sess] = 1]
              /\ sessAlive' = [sessAlive EXCEPT ![sess] = TRUE]
              /\ slot' = [slot EXCEPT ![sess] = NoError]
              /\ blocking' = [blocking EXCEPT ![sess] = TRUE]
    /\ UNCHANGED <<INIT, LIB, nInit, nFinalize, exited, calls, nFree, nChan, last>>
    /\ UNCHANGED engVars

\* Session::new after initialize() succeeded: ssh_new, the null check, and the
\* Arc::new(SessionHolder { sess }) of the success path
Session_new_alloc(t, sess) ==
    /\ ~exited
    /\ pc[t] = "ssh_new"
    /\ sess \in ssh_new_results
    /\ pc' = [pc EXCEPT ![t] = "idle"]
    /\ IF sess = NULL_SESSION
         THEN /\ ret' = [ret EXCEPT ![t] = Fatal("ssh_new failed")]
              /\ UNCHANGED <<handle, strong, sessAlive, slot, blocking>>
         ELSE /\ ret' = [ret EXCEPT ![t] = Ok("Session")]
              /\ handle' = [handle EXCEPT ![sess] = "live"]
              /\ strong' = [strong EXCEPT ![sess] = 1]
              /\ sessAlive' = [sessAlive EXCEPT ![sess] = TRUE]
              /\ slot' = [slot EXCEPT ![sess] = NoError]
              /\ blocking' = [blocking EXCEPT ![sess] = TRUE]
    /\ UNCHANGED <<INIT, LIB, nInit, nFinalize, exited, calls, nFree, nChan, last>>
    /\ UNCHANGED engVars

\* An owner that frees the handle itself whenever it is dropped, as a Session
\* or Channel holding the raw handle instead of the Arc would.
Arc_drop_unshared(h) ==
    /\ strong' = [strong EXCEPT ![h] = strong[h] - 1]
    /\ nFree' = [nFree EXCEPT ![h] = nFree[h] + 1]
    /\ handle' = [handle EXCEPT ![h] = "freed"]

\* Dropping one Arc<SessionHolder>: the strong count goes down by one, and the
\* owner that takes it to zero runs Drop for SessionHolder: sys::ssh_free(sess)
Arc_drop(h) ==
    /\ strong' = [strong EXCEPT ![h] = strong[h] - 1]
    /\ IF strong[h] = 1
         THEN /\ nFree' = [nFree EXCEPT ![h] = nFree[h] + 1]
              /\ handle' = [handle EXCEPT ![h] = "freed"]
         ELSE UNCHANGED <<nFree, handle>>

\* A channel constructor that copies the raw handle without taking a share.
Arc_clone_missing(h) == strong' = strong

\* Arc::clone(&self.sess): one more owner of the SessionHolder
Arc_clone(h) == strong' = [strong EXCEPT ![h] = strong[h] + 1]

\* the Session value goes out of scope: its field sess: Arc<SessionHolder> drops
DropSession(h) ==
    /\ ~exited
    /\ sessAlive[h]
    /\ sessAlive' = [sessAlive EXCEPT ![h] = FALSE]
    /\ Arc_drop(h)
    /\ UNCHANGED lifeVars
    /\ UNCHANGED <<nChan, slot, blocking, last>>
    /\ UNCHANGED engVars

\* a Channel value goes out of scope: its field sess: Arc<SessionHolder> drops
DropChannel(h) ==
    /\ ~exited
    /\ nChan[h] > 0
    /\ nChan' = [nChan EXCEPT ![h] = nChan[h] - 1]
    /\ Arc_drop(h)
    /\ UNCHANGED lifeVars
    /\ UNCHANGED <<sessAlive, slot, blocking, last>>
    /\ UNCHANGED engVars

\* The process ends. LIB is a static: Rust runs no destructor for statics, so
\* nothing is dropped and ssh_finalize is not called here.
ProcessExit ==
    /\ ~exited
    /\ exited' = TRUE
    /\ UNCHANGED <<INIT, LIB, nInit, nFinalize, pc, calls, ret>>
    /\ UNCHANGED ownVars
    /\ UNCHANGED errVars
    /\ UNCHANGED engVars

(* ---------------------------- error translation ----------------------- *)
\* CStr::to_string_lossy().to_string(): invalid UTF-8 becomes U+FFFD
to_string_lossy(r) == IF r = "denied\\xFF" THEN "denied<U+FFFD>" ELSE r

\* the reason String last_error builds from ssh_get_error's pointer
reason_string(r) == IF r = NULL THEN "" ELSE to_string_lossy(r)

\* A last_error that reports every recorded error as Fatal.
last_error_all_fatal(s) ==
    IF s.code = SSH_NO_ERROR THEN NoRet ELSE Fatal(reason_string(s.reason))

\* SessionHolder::last_error: NoRet stands for None, an error value for Some(e)
last_error(s) ==
    IF s.code = SSH_NO_ERROR THEN NoRet
    ELSE IF s.code = SSH_REQUEST_DENIED THEN RequestDenied(reason_string(s.reason))
    ELSE Fatal(reason_string(s.reason))

\* `if let Some(err) = self.last_error() { Err(err) } else { <otherwise> }`
last_error_or(s, otherwise) ==
    IF last_error(s) # NoRet THEN last_error(s) ELSE otherwise

\* A basic_status that does not look at SSH_AGAIN.
basic_status_no_again(s, res, what) ==
    IF res = SSH_OK THEN Ok("unit") ELSE last_error_or(s, Fatal(what))

\* A basic_status that answers a failing status with the static description.
basic_status_static(s, res, what) ==
    IF res = SSH_OK THEN Ok("unit")
    ELSE IF res = SSH_AGAIN THEN TryAgain
    ELSE Fatal(what)

\* SessionHolder::basic_status, s being the session's slot when it is called
basic_status(s, res, what) ==
    IF res = SSH_OK THEN Ok("unit")
    ELSE IF res = SSH_AGAIN THEN TryAgain
    ELSE last_error_or(s, Fatal(what))

\* the `res == SSH_OK / else last_error / else fatal` chain that set_option,
\* update_known_hosts_file and listen_forward spell out themselves
ok_or_last_error(s, res, okval, what) ==
    IF res = SSH_OK THEN Ok(okval) ELSE last_error_or(s, Fatal(what))

(* ------------------------- numeric conversions ------------------------ *)
\* A Duration's as_millis(), a u128, written hi * 2^31 + lo with 0 <= lo < 2^31
Ms(hi, lo) == [hi |-> hi, lo |-> lo]

\* `as c_int` of that count: its low 32 bits, read as a signed 32-bit integer
ToCInt(d) == IF d.hi % 2 = 1 THEN (d.lo - 2147483647) - 1 ELSE d.lo

\* `as u16` of a c_int: the low 16 bits
ToU16(x) == x % 65536

\* Duration values the caller passes, in milliseconds
Durations == {Ms(0, 0), Ms(0, 50)}
\* Option<Duration>: <<>> is None, <<ms>> is Some(ms)
OptDurations == {<<>>} \cup {<<d>> : d \in Durations}
\* The same with durations of 2^31 ms (about 25 days) and more, which a
\* Duration holds as well: 2^31, 2^32 - 1 and 2^32 + 5 milliseconds
WideDurations == Durations \cup {Ms(1, 0), Ms(1, 2147483647), Ms(2, 5)}
OptWideDurations == {<<>>} \cup {<<d>> : d \in WideDurations}

\* ports: what the caller asks listen_forward for, what the engine reports back
RequestPorts == {0, 8022}
EnginePorts == {0, 8022, 49152}

(* --------------------------- engine outcomes -------------------------- *)
\* a session operation needs the Session value and a handle not yet freed
Usable(h) == ~exited /\ handle[h] = "live" /\ sessAlive[h]

\* statuses of an engine call that may have to wait (connect, listen_forward):
\* SSH_AGAIN only comes from a session in non-blocking mode
WaitingStatuses(h) ==
    {SSH_OK, SSH_ERROR} \cup (IF blocking[h] THEN {} ELSE {SSH_AGAIN})
\* statuses of ssh_blocking_flush: SSH_AGAIN also when its timeout runs out
FlushStatuses(h, t) ==
    {SSH_OK, SSH_ERROR} \cup (IF blocking[h] /\ t = <<>> THEN {} ELSE {SSH_AGAIN})
\* statuses of an engine call that never waits (options, known-hosts file)
PlainStatuses == {SSH_OK, SSH_ERROR}
\* results of the ssh_userauth_* calls
AuthResults(h) ==
    {SSH_AUTH_SUCCESS, SSH_AUTH_DENIED, SSH_AUTH_PARTIAL, SSH_AUTH_INFO,
     SSH_AUTH_ERROR, SSH_AUTH_UNKNOWN}
        \cup (IF blocking[h] THEN {} ELSE {SSH_AUTH_AGAIN})

\* what a status-returning call may do to the slot: only a failing call records
StatusWrites(res) == IF res \in {SSH_OK, SSH_AGAIN} THEN {Keep} ELSE FailWrites
\* an authentication call records an error when it fails, and may record the
\* peer's refusal when the attempt is denied
AuthWrites(res) ==
    IF res \in {SSH_AUTH_ERROR, SSH_AUTH_UNKNOWN, SSH_AUTH_DENIED}
      THEN FailWrites ELSE {Keep}

\* the engine call of a session operation has run: the slot after it
Engine(h, w) == slot' = [slot EXCEPT ![h] = SlotAfter(slot[h], w)]

(* --------------------------- session operations ----------------------- *)
\* the error ssh_connect records for a session it has no way to reach
HostnameRequired == [code |-> SSH_FATAL, reason |-> "Hostname required"]

\* ssh_connect: a session with neither a host nor a socket of its own is
\* refused with "Hostname required"; any other session may get any outcome
ssh_connect(h, res, w) ==
    IF cfg[h].host = NULL /\ cfg[h].fd = -1
      THEN res = SSH_ERROR /\ w = Record(HostnameRequired)
      ELSE res \in WaitingStatuses(h) /\ w \in StatusWrites(res)

\* A connect that calls ssh_connect again when it would block and reports
\* the second attempt, which fails.
connect_retrying(h, res, w) ==
    /\ Usable(h)
    /\ ssh_connect(h, res, w)
    /\ Engine(h, w)
    /\ connected' = [connected EXCEPT ![h] = IF res = SSH_OK THEN TRUE ELSE @]
    /\ last' = [Call("connect", h, 0, res, "n/a", 0, w, FALSE,
                     basic_status(slot'[h], IF res = SSH_AGAIN THEN SSH_ERROR ELSE res,
                                  "ssh_connect failed"))
                  EXCEPT !.reqs = IF res = SSH_AGAIN THEN @ \o @ ELSE @]
    /\ UNCHANGED lifeVars
    /\ UNCHANGED ownVars
    /\ UNCHANGED blocking
    /\ UNCHANGED <<cfg, authst, ghost>>

\* Session::connect
connect(h, res, w) ==
    /\ Usable(h)
    /\ ssh_connect(h, res, w)
    /\ Engine(h, w)
    /\ connected' = [connected EXCEPT ![h] = IF res = SSH_OK THEN TRUE ELSE @]
    /\ last' = Call("connect", h, 0, res, "n/a", 0, w, FALSE,
                    basic_status(slot'[h], res, "ssh_connect failed"))
    /\ UNCHANGED lifeVars
    /\ UNCHANGED ownVars
    /\ UNCHANGED blocking
    /\ UNCHANGED <<cfg, authst, ghost>>

\* A disconnect that never reaches the engine.
disconnect_skipped(h) ==
    /\ Usable(h)
    /\ last' = Call("disconnect", h, 0, 0, "n/a", 0, Keep, FALSE, NoRet)
    /\ UNCHANGED lifeVars
    /\ UNCHANGED ownVars
    /\ UNCHANGED <<slot, blocking>>
    /\ UNCHANGED engVars

\* Session::disconnect: ssh_disconnect closes the connection and keeps the
\* option store; nothing is returned
disconnect(h) ==
    /\ Usable(h)
    /\ connected' = [connected EXCEPT ![h] = FALSE]
    /\ ghost' = [ghost EXCEPT ![h].cycles = IF connected[h] THEN @ + 1 ELSE @]
    /\ authst' = [authst EXCEPT ![h] = FreshAuth]
    /\ last' = Call("disconnect", h, 0, 0, "n/a", 0, Keep, FALSE, NoRet)
    /\ UNCHANGED lifeVars
    /\ UNCHANGED ownVars
    /\ UNCHANGED <<slot, blocking, cfg>>

\* An is_connected that reads the engine's answer the wrong way round.
is_connected_inverted(c) == (IF c THEN 1 ELSE 0) = 0

\* the value of Session::is_connected: `ssh_is_connected(..) != 0`
is_connected_value(c) == (IF c THEN 1 ELSE 0) # 0

\* Session::is_connected
is_connected(h) ==
    /\ Usable(h)
    /\ last' = Call("is_connected", h, 0, IF connected[h] THEN 1 ELSE 0, "n/a", 0,
                    Keep, FALSE, Ok(IF is_connected_value(connected[h]) THEN "true" ELSE "false"))
    /\ UNCHANGED lifeVars
    /\ UNCHANGED ownVars
    /\ UNCHANGED <<slot, blocking>>
    /\ UNCHANGED engVars

\* the c_int timeout blocking_flush hands to ssh_blocking_flush
flush_timeout(t) == IF t = <<>> THEN -1 ELSE ToCInt(t[1])

\* Session::blocking_flush / SessionHolder::blocking_flush
blocking_flush(h, t, res, w) ==
    /\ Usable(h)
    /\ res \in FlushStatuses(h, t)
    /\ w \in StatusWrites(res)
    /\ Engine(h, w)
    /\ last' = [Call("blocking_flush", h, flush_timeout(t), res, "n/a", 0, w,
                     FALSE, basic_status(slot'[h], res, "blocking_flush"))
                 EXCEPT !.dur = t]
    /\ UNCHANGED lifeVars
    /\ UNCHANGED ownVars
    /\ UNCHANGED blocking
    /\ UNCHANGED engVars

\* what ssh_session_is_known_server may return: its six named values and one
\* the enumeration does not name
KnownHostsResults ==
    {SSH_KNOWN_HOSTS_ERROR, SSH_KNOWN_HOSTS_NOT_FOUND, SSH_KNOWN_HOSTS_UNKNOWN,
     SSH_KNOWN_HOSTS_OK, SSH_KNOWN_HOSTS_CHANGED, SSH_KNOWN_HOSTS_OTHER, 4}
\* a verdict on the key records nothing; a failed lookup may record its error
KnownHostsWrites(res) ==
    IF res \in {SSH_KNOWN_HOSTS_NOT_FOUND, SSH_KNOWN_HOSTS_UNKNOWN, SSH_KNOWN_HOSTS_OK,
                SSH_KNOWN_HOSTS_CHANGED, SSH_KNOWN_HOSTS_OTHER}
      THEN {Keep} ELSE FailWrites

\* the match of Session::is_known_server, s being the slot after the call
is_known_server_result(s, res) ==
    CASE res = SSH_KNOWN_HOSTS_NOT_FOUND -> Ok("NotFound")
      [] res = SSH_KNOWN_HOSTS_UNKNOWN -> Ok("Unknown")
      [] res = SSH_KNOWN_HOSTS_OK -> Ok("Ok")
      [] res = SSH_KNOWN_HOSTS_CHANGED -> Ok("Changed")
      [] res = SSH_KNOWN_HOSTS_OTHER -> Ok("Other")
      [] OTHER ->
            last_error_or(s, Fatal("unknown error in ssh_session_is_known_server"))

\* Session::is_known_server
is_known_server(h, res, w) ==
    /\ Usable(h)
    /\ res \in KnownHostsResults
    /\ w \in KnownHostsWrites(res)
    /\ Engine(h, w)
    /\ last' = Call("is_known_server", h, 0, res, "n/a", 0, w, FALSE,
                    is_known_server_result(slot'[h], res))
    /\ UNCHANGED lifeVars
    /\ UNCHANGED ownVars
    /\ UNCHANGED blocking
    /\ UNCHANGED engVars

\* Session::update_known_hosts_file
update_known_hosts_file(h, res, w) ==
    /\ Usable(h)
    /\ res \in PlainStatuses
    /\ w \in StatusWrites(res)
    /\ Engine(h, w)
    /\ last' = Call("update_known_hosts_file", h, 0, res, "n/a", 0, w, FALSE,
                    ok_or_last_error(slot'[h], res, "unit",
                                     "error updating known hosts file"))
    /\ UNCHANGED lifeVars
    /\ UNCHANGED ownVars
    /\ UNCHANGED blocking
    /\ UNCHANGED engVars

\* strings the caller may pass that hold a NUL byte before their end
NulStrings == {"ad\\0min"}
HasNul(x) == x \in NulStrings

\* CString::new(x): an error iff x holds a NUL byte
CString_new(x) == IF HasNul(x) THEN "Err" ELSE "Ok"

\* the error `?` makes of CString::new's NulError
NulError == Fatal("nul byte found in provided data")

\* opt_string_to_cstring / opt_str_to_cstring: `s.and_then(|s|
\* CString::new(s).ok())`, so None for None and for a string CString::new refuses
opt_string_to_cstring(x) ==
    IF x = <<>> THEN <<>> ELSE IF CString_new(x[1]) = "Ok" THEN x ELSE <<>>

\* opt_cstring_to_cstr: the pointer handed to the engine; <<>> is null
opt_cstring_to_cstr(x) == x

\* the engine's numbering of the LogLevel variants
LogLevelOf(name) ==
    CASE name = "NoLogging" -> 0
      [] name = "Warning" -> 1
      [] name = "Protocol" -> 2
      [] name = "Packet" -> 3
      [] name = "Functions" -> 4

\* Duration::as_micros of a Duration of d milliseconds; the `as c_ulong` that
\* follows keeps a count of this size as it is
as_micros(d) == d * 1000

\* An OptionKey that files KnownHosts under the ssh directory's key.
OptionKey_shared(opt) ==
    CASE opt = "LogLevel" -> "log"
      [] opt = "Hostname" -> "host"
      [] opt = "BindAddress" -> "bindaddr"
      [] opt = "AddIdentity" -> "identities"
      [] opt = "User" -> "user"
      [] opt = "SshDir" -> "sshdir"
      [] opt = "KnownHosts" -> "sshdir"
      [] opt = "Port" -> "port"
      [] opt = "Socket" -> "fd"
      [] opt = "Timeout" -> "timeout"

\* the engine key each SshOption variant is handed to ssh_options_set with,
\* named by the field of the option store the key selects
OptionKey(opt) ==
    CASE opt = "LogLevel" -> "log"
      [] opt = "Hostname" -> "host"
      [] opt = "BindAddress" -> "bindaddr"
      [] opt = "AddIdentity" -> "identities"
      [] opt = "User" -> "user"
      [] opt = "SshDir" -> "sshdir"
      [] opt = "KnownHosts" -> "knownhosts"
      [] opt = "Port" -> "port"
      [] opt = "Socket" -> "fd"
      [] opt = "Timeout" -> "timeout"

\* the variants whose string goes through `CString::new(name)?`
StrictOptions == {"Hostname", "BindAddress", "AddIdentity"}
\* the variants whose Option<String> goes through opt_string_to_cstring
LenientOptions == {"User", "SshDir", "KnownHosts"}

\* set_option returns early, through `?`, without calling the engine
set_option_early(o) == o.opt \in StrictOptions /\ CString_new(o.s[1]) = "Err"

\* the string pointer handed to ssh_options_set (<<>> is null)
set_option_ptr(o) ==
    IF o.opt \in LenientOptions THEN opt_cstring_to_cstr(opt_string_to_cstring(o.s))
    ELSE IF o.opt \in StrictOptions THEN o.s
    ELSE <<>>

\* the number handed to ssh_options_set by reference
set_option_num(o) ==
    IF o.opt = "LogLevel" THEN LogLevelOf(o.s[1])
    ELSE IF o.opt = "Timeout" THEN as_micros(o.n)
    ELSE o.n

\* ssh_options_set succeeding on store c: the key's field takes the value; a
\* null user or path selects the engine's default; ADD_IDENTITY prepends
ssh_options_set(c, key, ptr, num) ==
    CASE key = "log" -> [c EXCEPT !.log = num]
      [] key = "host" -> [c EXCEPT !.host = ptr[1]]
      [] key = "bindaddr" -> [c EXCEPT !.bindaddr = ptr[1]]
      [] key = "identities" -> [c EXCEPT !.identities = <<ptr[1]>> \o @]
      [] key = "user" -> [c EXCEPT !.user = IF ptr = <<>> THEN LocalUser ELSE ptr[1]]
      [] key = "sshdir" -> [c EXCEPT !.sshdir = IF ptr = <<>> THEN DefaultPath ELSE ptr[1]]
      [] key = "knownhosts" ->
            [c EXCEPT !.knownhosts = IF ptr = <<>> THEN DefaultPath ELSE ptr[1]]
      [] key = "port" -> [c EXCEPT !.port = num]
      [] key = "fd" -> [c EXCEPT !.fd = num]
      [] key = "timeout" -> [c EXCEPT !.timeout = num]

\* the option store after set_option(o) whose engine call returned res
cfg_after(c, o, res) ==
    IF res = SSH_OK
      THEN ssh_options_set(c, OptionKey(o.opt), set_option_ptr(o), set_option_num(o))
      ELSE c

\* Session::set_option
set_option(h, o, res, w) ==
    /\ Usable(h)
    /\ IF set_option_early(o)
         THEN /\ res = SSH_ERROR
              /\ w = Keep
              /\ last' = [Call("set_option", h, 0, res, "n/a", 0, w, FALSE, NulError)
                            EXCEPT !.opt = o, !.called = FALSE, !.reqs = <<>>]
              /\ UNCHANGED <<slot, cfg, ghost>>
         ELSE /\ res \in PlainStatuses
              /\ w \in StatusWrites(res)
              /\ Engine(h, w)
              /\ cfg' = [cfg EXCEPT ![h] = cfg_after(@, o, res)]
              /\ ghost' = [ghost EXCEPT ![h] =
                    IF res # SSH_OK THEN @
                    ELSE [@ EXCEPT !.userSet = IF o.opt = "User" THEN TRUE ELSE @,
                                   !.userArg = IF o.opt = "User" THEN o.s ELSE @]]
              /\ last' = [Call("set_option", h, 0, res, "n/a", 0, w, FALSE,
                               ok_or_last_error(slot'[h], res, "unit",
                                                "failed to set option"))
                            EXCEPT !.opt = o,
                                   !.rep = /\ last.op = "set_option"
                                           /\ last.h = h
                                           /\ last.opt = o
                                           /\ last.ret.kind = "Ok",
                                   !.changed = cfg'[h] # cfg[h]]
    /\ UNCHANGED lifeVars
    /\ UNCHANGED ownVars
    /\ UNCHANGED <<blocking, connected, authst>>

\* Session::get_user_name; ssh_options_get(USER) fails, leaving the name null,
\* while the store holds no user, and hands out a copy of the stored name otherwise
get_user_name(h, w) ==
    /\ Usable(h)
    /\ w \in (IF cfg[h].user = NULL THEN FewFailWrites ELSE {Keep})
    /\ Engine(h, w)
    /\ last' = Call("get_user_name", h, 0,
                    IF cfg[h].user = NULL THEN SSH_ERROR ELSE SSH_OK, "n/a", 0, w, FALSE,
                    IF cfg[h].user = NULL
                      THEN last_error_or(slot'[h], Fatal("error getting user name"))
                      ELSE Ok(to_string_lossy(cfg[h].user)))
    /\ UNCHANGED lifeVars
    /\ UNCHANGED ownVars
    /\ UNCHANGED blocking
    /\ UNCHANGED engVars

\* What ssh_channel_listen_forward may leave in bound_port, which the caller
\* set to 0: the port the peer chose when asked for port 0; for a given port
\* the engine has nothing to report and either leaves the 0 or stores the port
ssh_channel_listen_forward_bound(port, res) ==
    IF res # SSH_OK THEN {0}
    ELSE IF port = 0 THEN EnginePorts \ {0}
    ELSE {0, port}

\* Session::listen_forward: bound is what the engine left in bound_port
listen_forward(h, port, res, bound, w) ==
    /\ Usable(h)
    /\ port \in RequestPorts
    /\ res \in WaitingStatuses(h)
    /\ bound \in ssh_channel_listen_forward_bound(port, res)
    /\ w \in StatusWrites(res)
    /\ Engine(h, w)
    /\ last' = Call("listen_forward", h, port, res, "n/a",
                    IF res = SSH_OK THEN ToU16(bound) ELSE 0, w, FALSE,
                    ok_or_last_error(slot'[h], res, "port",
                                     "error in ssh_channel_listen_forward"))
    /\ UNCHANGED lifeVars
    /\ UNCHANGED ownVars
    /\ UNCHANGED blocking
    /\ UNCHANGED engVars

\* Session::set_blocking
set_blocking(h, b) ==
    /\ Usable(h)
    /\ blocking' = [blocking EXCEPT ![h] = b]
    /\ UNCHANGED lifeVars
    /\ UNCHANGED ownVars
    /\ UNCHANGED <<slot, last>>
    /\ UNCHANGED engVars

(* ----------------------------- authentication ------------------------- *)
\* An auth_result that treats "again" as one more failure.
auth_result_again_fails(s, res, what) ==
    IF res = SSH_AUTH_SUCCESS THEN Ok("Success")
    ELSE IF res = SSH_AUTH_DENIED THEN Ok("Denied")
    ELSE IF res = SSH_AUTH_PARTIAL THEN Ok("Partial")
    ELSE IF res = SSH_AUTH_INFO THEN Ok("Info")
    ELSE last_error_or(s, Fatal(what))

\* Session::auth_result, s being the session's slot when it is called
auth_result(s, res, what) ==
    IF res = SSH_AUTH_SUCCESS THEN Ok("Success")
    ELSE IF res = SSH_AUTH_DENIED THEN Ok("Denied")
    ELSE IF res = SSH_AUTH_PARTIAL THEN Ok("Partial")
    ELSE IF res = SSH_AUTH_INFO THEN Ok("Info")
    ELSE IF res = SSH_AUTH_AGAIN THEN Ok("Again")
    ELSE last_error_or(s, Fatal(what))

\* the engine's keyboard-interactive exchange after an authentication call:
\* SSH_AUTH_INFO from ssh_userauth_kbdint opens a round of n unanswered
\* prompts, any other result of it ends the exchange
kbdint_after(a, op, res, n) ==
    IF op # "userauth_keyboard_interactive" THEN a
    ELSE IF res = SSH_AUTH_INFO
      THEN [open |-> TRUE, nprompts |-> n, answers |-> [i \in 1..n |-> NULL]]
    ELSE FreshAuth

\* what the four entry points share: the engine call, then auth_result; n is
\* the number of prompts the server sent, if it sent any
userauth(op, h, res, w, n) ==
    /\ Usable(h)
    /\ res \in AuthResults(h)
    /\ w \in AuthWrites(res)
    /\ Engine(h, w)
    /\ authst' = [authst EXCEPT ![h] = kbdint_after(@, op, res, n)]
    /\ ghost' = [ghost EXCEPT ![h].noneCalled = IF op = "userauth_none" THEN TRUE ELSE @]
    /\ last' = Call(op, h, 0, res, "n/a", 0, w, FALSE,
                    auth_result(slot'[h], res, "authentication error"))
    /\ UNCHANGED lifeVars
    /\ UNCHANGED ownVars
    /\ UNCHANGED blocking
    /\ UNCHANGED <<connected, cfg>>

\* Session::userauth_none
userauth_none(h, res, w) == userauth("userauth_none", h, res, w, 0)

\* Session::userauth_public_key_auto
userauth_public_key_auto(h, res, w) ==
    userauth("userauth_public_key_auto", h, res, w, 0)

\* Session::userauth_password
userauth_password(h, res, w) == userauth("userauth_password", h, res, w, 0)

\* Session::userauth_keyboard_interactive
userauth_keyboard_interactive(h, res, w, n) ==
    userauth("userauth_keyboard_interactive", h, res, w, n)

AuthOps == {"userauth_none", "userauth_public_key_auto", "userauth_password",
            "userauth_keyboard_interactive"}

\* sys::SSH_AUTH_METHOD_*, the six bits AuthMethods names
SSH_AUTH_METHOD_NONE == 1
SSH_AUTH_METHOD_PASSWORD == 2
SSH_AUTH_METHOD_PUBLICKEY == 4
SSH_AUTH_METHOD_HOSTBASED == 8
SSH_AUTH_METHOD_INTERACTIVE == 16
SSH_AUTH_METHOD_GSSAPI_MIC == 32

\* values ssh_userauth_list may return: a bit field held in a c_int; 64 is a
\* bit AuthMethods has no name for
MethodValues ==
    {0, SSH_AUTH_METHOD_NONE, SSH_AUTH_METHOD_PASSWORD + SSH_AUTH_METHOD_PUBLICKEY,
     SSH_AUTH_METHOD_PASSWORD + SSH_AUTH_METHOD_INTERACTIVE,
     SSH_AUTH_METHOD_NONE + SSH_AUTH_METHOD_PASSWORD + SSH_AUTH_METHOD_PUBLICKEY
        + SSH_AUTH_METHOD_HOSTBASED + SSH_AUTH_METHOD_INTERACTIVE
        + SSH_AUTH_METHOD_GSSAPI_MIC,
     SSH_AUTH_METHOD_PASSWORD + 64}

\* `as u32` of a c_int that is not negative: the same bits, given as the set
\* of the powers of two that are set among the low seven
ToU32(v) == {b \in {1, 2, 4, 8, 16, 32, 64} : (v \div b) % 2 = 1}

\* AuthMethods::from_bits_unchecked: the bits are taken as they come
from_bits_unchecked(b) == b

\* A userauth_list that reports an empty method list as an error.
userauth_list_result_nonempty(v) ==
    IF v = 0 THEN [ret |-> Fatal("no authentication methods"), bits |-> {}]
    ELSE [ret |-> Ok("AuthMethods"), bits |-> from_bits_unchecked(ToU32(v))]

\* what Session::userauth_list returns for the engine's value v: always Ok
userauth_list_result(v) ==
    [ret |-> Ok("AuthMethods"), bits |-> from_bits_unchecked(ToU32(v))]

\* Session::userauth_list: the engine's answer is not a status and no error
\* is looked up
userauth_list(h, v) ==
    /\ Usable(h)
    /\ v \in MethodValues
    /\ last' = [Call("userauth_list", h, v, v, "n/a", 0, Keep, FALSE,
                     userauth_list_result(v).ret)
                  EXCEPT !.bits = userauth_list_result(v).bits]
    /\ UNCHANGED lifeVars
    /\ UNCHANGED ownVars
    /\ UNCHANGED <<slot, blocking>>
    /\ UNCHANGED engVars

\* a call that did not return: a panic, or a crash of the process
Panic(r) == [kind |-> "Panic", reason |-> r, val |-> "-"]
Crash == [kind |-> "Crash", reason |-> "", val |-> "-"]

\* the prompt the server sent as number i (counted from 1) of a round: its
\* text and the engine's echo byte
EnginePrompt(i) ==
    [text |-> CASE i = 1 -> "Password: " [] i = 2 -> "Code: " [] OTHER -> "PIN: ",
     echo |-> IF i % 2 = 0 THEN 1 ELSE 0]

\* ssh_userauth_kbdint_getnprompts: the prompt count of the open exchange,
\* SSH_ERROR if there is none
ssh_userauth_kbdint_getnprompts(a) == IF a.open THEN a.nprompts ELSE SSH_ERROR

\* the InteractiveAuthPrompt made of engine prompt i (0-based): the text
\* decoded lossily, echo != 0
InteractiveAuthPrompt(i) ==
    [prompt |-> to_string_lossy(EnginePrompt(i + 1).text),
     echo |-> EnginePrompt(i + 1).echo # 0]

\* the prompts vector built by `for i in 0..n_prompts`
info_prompts(n) == [k \in 1..n |-> InteractiveAuthPrompt(k - 1)]

\* the engine requests of userauth_keyboard_interactive_info up to the point
\* where it returns, panics or crashes
info_requests(a, ub) ==
    IF ~a.open /\ ub = "crash" THEN <<[fn |-> "ssh_userauth_kbdint_getname", idx |-> 0]>>
    ELSE <<[fn |-> "ssh_userauth_kbdint_getname", idx |-> 0],
           [fn |-> "ssh_userauth_kbdint_getinstruction", idx |-> 0],
           [fn |-> "ssh_userauth_kbdint_getnprompts", idx |-> 0]>>
         \o (IF a.open THEN [i \in 1..a.nprompts |->
                                [fn |-> "ssh_userauth_kbdint_getprompt", idx |-> i - 1]]
             ELSE <<>>)

\* Session::userauth_keyboard_interactive_info. With no open exchange
\* ssh_userauth_kbdint_getname returns null and CStr::from_ptr(null) is
\* undefined behaviour: ub says whether the read crashes the process
\* ("crash") or yields some string ("read"); in the latter case the prompt
\* count is SSH_ERROR and `assert!(n_prompts >= 0)` panics.
userauth_keyboard_interactive_info(h, ub) ==
    LET n == ssh_userauth_kbdint_getnprompts(authst[h])
    IN  /\ Usable(h)
        /\ ub \in {"crash", "read"}
        /\ authst[h].open => ub = "read"
        /\ last' = [Call("info", h, 0, n, "n/a", 0, Keep, FALSE,
                         IF ~authst[h].open /\ ub = "crash" THEN Crash
                         ELSE IF ~(n >= 0) THEN Panic("assertion failed: n_prompts >= 0")
                         ELSE Ok("InteractiveAuthInfo"))
                      EXCEPT !.info = IF n >= 0 THEN info_prompts(n) ELSE <<>>,
                             !.reqs = info_requests(authst[h], ub)]
        /\ UNCHANGED lifeVars
        /\ UNCHANGED ownVars
        /\ UNCHANGED <<slot, blocking>>
        /\ UNCHANGED engVars

\* answers the caller may give, one of them with a NUL inside
AnswerStrings == {"yes"} \cup NulStrings

\* The loop of userauth_keyboard_interactive_set_answers stops at the first
\* index i (counted from 1) whose answer CString::new refuses or whose
\* ssh_userauth_kbdint_setanswer fails: the engine refuses an index that is
\* no prompt of the open exchange, and index f if it is told to fail there.
\* 0 says that the loop ran to its end.
set_answers_stop(answers, n, f) ==
    LET bad == {i \in 1..Len(answers) : HasNul(answers[i]) \/ i > n \/ i = f}
    IN IF bad = {} THEN 0 ELSE CHOOSE i \in bad : \A j \in bad : i <= j

\* A loop that goes on after an answer was refused.
set_answers_recorded_all(a, answers, stop) ==
    [i \in 1..a.nprompts |-> IF i <= Len(answers) THEN answers[i] ELSE a.answers[i]]

\* the answers the engine holds after the loop: those before the stop
set_answers_recorded(a, answers, stop) ==
    [i \in 1..a.nprompts |->
        IF i <= Len(answers) /\ (stop = 0 \/ i < stop) THEN answers[i] ELSE a.answers[i]]

\* Session::userauth_keyboard_interactive_set_answers
userauth_keyboard_interactive_set_answers(h, answers, f, w) ==
    LET stop == set_answers_stop(answers, authst[h].nprompts, f)
        nul == stop # 0 /\ HasNul(answers[stop])
    IN  /\ Usable(h)
        /\ f \in 0..Len(answers)
        /\ w \in (IF stop = 0 \/ nul THEN {Keep} ELSE FailWrites)
        /\ Engine(h, w)
        /\ authst' = [authst EXCEPT ![h].answers = set_answers_recorded(authst[h], answers, stop)]
        /\ last' = [Call("set_answers", h, Len(answers), IF stop = 0 THEN 0 ELSE -1,
                         "n/a", 0, w, FALSE,
                         IF stop = 0 THEN Ok("unit")
                         ELSE IF nul THEN NulError
                         ELSE last_error_or(slot'[h], Fatal("error setting answer")))
                      EXCEPT !.called = stop = 0 \/ ~nul \/ stop > 1,
                             !.ans = answers,
                             !.stop = stop,
                             !.reqs = [i \in 1..(IF stop = 0 THEN Len(answers)
                                                 ELSE IF nul THEN stop - 1 ELSE stop) |->
                                         [fn |-> "ssh_userauth_kbdint_setanswer",
                                          idx |-> i - 1]]]
        /\ UNCHANGED lifeVars
        /\ UNCHANGED ownVars
        /\ UNCHANGED <<blocking, connected, cfg, ghost>>

(* ------------------------------ key hashes ---------------------------- *)
\* PublicKeyHashType
HashTypes == {"Sha1", "Md5", "Sha256"}

\* server keys the caller may hold as SshKey values
Keys == {1, 2}

\* ssh_get_publickey_hash succeeding: the digest of key k, a byte sequence of
\* the algorithm's length that depends on the key and on nothing else
ssh_get_publickey_hash(k, t) ==
    [i \in 1..(CASE t = "Sha1" -> 20 [] t = "Md5" -> 16 [] t = "Sha256" -> 32) |->
        (k * 37 + i * 11) % 256]

\* ssh_get_hexa: the engine's printable form of a buffer, two lowercase
\* hexadecimal digits for every byte, the bytes separated by colons
HexDigits == <<"0", "1", "2", "3", "4", "5", "6", "7", "8", "9",
               "a", "b", "c", "d", "e", "f">>
ssh_get_hexa(b) ==
    [j \in 1..(IF Len(b) = 0 THEN 0 ELSE 3 * Len(b) - 1) |->
        IF j % 3 = 1 THEN HexDigits[(b[(j + 2) \div 3] \div 16) + 1]
        ELSE IF j % 3 = 2 THEN HexDigits[(b[(j + 1) \div 3] % 16) + 1]
        ELSE ":"]

\* SshKey::get_public_key_hash: hres tells whether the engine produced the
\* digest ("ok") or failed (a nonzero result or a null buffer)
get_public_key_hash_result(k, t, hres) ==
    IF hres # "ok"
      THEN [ret |-> Fatal("failed to get public key hash"), bytes |-> <<>>]
      ELSE [ret |-> Ok("Vec<u8>"), bytes |-> ssh_get_publickey_hash(k, t)]

\* SshKey::get_public_key_hash
get_public_key_hash(k, t, hres) ==
    /\ ~exited
    /\ k \in Keys
    /\ t \in HashTypes
    /\ hres \in {"ok", "fail"}
    /\ last' = [Call("get_public_key_hash", 0, k, IF hres = "ok" THEN 0 ELSE -1,
                     "n/a", 0, Keep, FALSE, get_public_key_hash_result(k, t, hres).ret)
                  EXCEPT !.hash = t,
                         !.bytes = get_public_key_hash_result(k, t, hres).bytes]
    /\ UNCHANGED lifeVars
    /\ UNCHANGED ownVars
    /\ UNCHANGED <<slot, blocking>>
    /\ UNCHANGED engVars

\* SshKey::get_public_key_hash_hexa: the raw hash with `?`, then ssh_get_hexa,
\* which returns null (xres = "null") when it cannot allocate
get_public_key_hash_hexa(k, t, hres, xres) ==
    LET raw == get_public_key_hash_result(k, t, hres)
    IN  /\ ~exited
        /\ k \in Keys
        /\ t \in HashTypes
        /\ hres \in {"ok", "fail"}
        /\ xres \in {"ok", "null"}
        /\ IsErr(raw.ret) => xres = "ok"
        /\ last' = [Call("get_public_key_hash_hexa", 0, k, IF hres = "ok" THEN 0 ELSE -1,
                         "n/a", 0, Keep, FALSE,
                         IF IsErr(raw.ret) THEN raw.ret
                         ELSE IF xres = "null"
                           THEN Fatal("failed to allocate bytes for hexa representation")
                         ELSE Ok("String"))
                      EXCEPT !.hash = t,
                             !.bytes = raw.bytes,
                             !.called = xres = "ok",
                             !.hexa = IF IsErr(raw.ret) \/ xres = "null" THEN <<>>
                                      ELSE ssh_get_hexa(raw.bytes),
                             !.reqs = IF IsErr(raw.ret)
                                        THEN <<[fn |-> "ssh_get_publickey_hash", idx |-> 0]>>
                                        ELSE <<[fn |-> "ssh_get_publickey_hash", idx |-> 0],
                                               [fn |-> "ssh_get_hexa", idx |-> 0]>>]
        /\ UNCHANGED lifeVars
        /\ UNCHANGED ownVars
        /\ UNCHANGED <<slot, blocking>>
        /\ UNCHANGED engVars

(* ------------------------------- channels ----------------------------- *)
\* A new_channel that takes its share of the session before it looks at what
\* the engine returned, and keeps it when no channel was created.
new_channel_clone_first(h, chan, w) ==
    /\ Usable(h)
    /\ chan \in {NULL, "chan"}
    /\ IF chan = NULL
         THEN /\ w \in FailWrites
              /\ Engine(h, w)
              /\ last' = Call("new_channel", h, 0, 0, chan, 0, w, FALSE,
                              last_error_or(slot'[h], Fatal("ssh_channel_new failed")))
              /\ Arc_clone(h)
              /\ UNCHANGED <<handle, nFree, sessAlive, nChan>>
         ELSE /\ nChan[h] < MaxChan
              /\ w = Keep
              /\ Engine(h, w)
              /\ last' = Call("new_channel", h, 0, 0, chan, 0, w, FALSE, Ok("Channel"))
              /\ Arc_clone(h)
              /\ nChan' = [nChan EXCEPT ![h] = nChan[h] + 1]
              /\ UNCHANGED <<handle, nFree, sessAlive>>
    /\ UNCHANGED lifeVars
    /\ UNCHANGED blocking
    /\ UNCHANGED engVars

\* Session::new_channel: chan is what ssh_channel_new returned
new_channel(h, chan, w) ==
    /\ Usable(h)
    /\ chan \in {NULL, "chan"}
    /\ IF chan = NULL
         THEN /\ w \in FailWrites
              /\ Engine(h, w)
              /\ last' = Call("new_channel", h, 0, 0, chan, 0, w, FALSE,
                              last_error_or(slot'[h], Fatal("ssh_channel_new failed")))
              /\ UNCHANGED ownVars
         ELSE /\ nChan[h] < MaxChan
              /\ w = Keep
              /\ Engine(h, w)
              /\ last' = Call("new_channel", h, 0, 0, chan, 0, w, FALSE, Ok("Channel"))
              /\ Arc_clone(h)
              /\ nChan' = [nChan EXCEPT ![h] = nChan[h] + 1]
              /\ UNCHANGED <<handle, nFree, sessAlive>>
    /\ UNCHANGED lifeVars
    /\ UNCHANGED blocking
    /\ UNCHANGED engVars

\* What ssh_channel_accept_forward may do within the timeout:
\*   "conn"    an inbound connection arrived: a channel and its port
\*   "timeout" the timeout ran out with no connection: null; the engine leaves
\*             the slot as it was or resets it to no-error
\*   "error"   the call failed: null, with or without a recorded error
AcceptOutcomes == {"conn", "timeout", "error"}
AcceptWrites(outcome) ==
    IF outcome = "conn" THEN {Keep}
    ELSE IF outcome = "timeout" THEN {Keep, Clear}
    ELSE FailWrites

\* Session::accept_forward
accept_forward(h, timeout, outcome, port, w) ==
    /\ Usable(h)
    /\ timeout \in WideDurations
    /\ outcome \in AcceptOutcomes
    /\ w \in AcceptWrites(outcome)
    /\ port \in (IF outcome = "conn" THEN EnginePorts \ {0} ELSE {0})
    /\ Engine(h, w)
    /\ IF outcome # "conn"
         THEN /\ last' = [Call("accept_forward", h, ToCInt(timeout), 0, NULL, 0, w,
                               outcome = "timeout",
                               last_error_or(slot'[h], TryAgain))
                           EXCEPT !.dur = <<timeout>>]
              /\ UNCHANGED ownVars
         ELSE /\ nChan[h] < MaxChan
              /\ last' = [Call("accept_forward", h, ToCInt(timeout), 0, "chan",
                               ToU16(port), w, FALSE, Ok("port, Channel"))
                           EXCEPT !.dur = <<timeout>>]
              /\ Arc_clone(h)
              /\ nChan' = [nChan EXCEPT ![h] = nChan[h] + 1]
              /\ UNCHANGED <<handle, nFree, sessAlive>>
    /\ UNCHANGED lifeVars
    /\ UNCHANGED blocking
    /\ UNCHANGED engVars

(* --------------------------- specifications --------------------------- *)
\* The process starts: nothing initialized, no session
Init ==
    /\ INIT = "Incomplete"
    /\ LIB = "None"
    /\ nInit = 0
    /\ nFinalize = 0
    /\ exited = FALSE
    /\ pc = [t \in Threads |-> "idle"]
    /\ calls = 0
    /\ ret = [t \in Threads |-> NoRet]
    /\ handle = [h \in Handles |-> "unused"]
    /\ nFree = [h \in Handles |-> 0]
    /\ strong = [h \in Handles |-> 0]
    /\ sessAlive = [h \in Handles |-> FALSE]
    /\ nChan = [h \in Handles |-> 0]
    /\ slot = [h \in Handles |-> NoError]
    /\ blocking = [h \in Handles |-> TRUE]
    /\ last = NoCall
    /\ FreshEngine

\* Threads create sessions, sessions are dropped, the process ends
Next ==
    \/ \E t \in Threads : Session_new_call(t)
    \/ \E t \in Threads : call_once(t)
    \/ \E t \in Threads, res \in {SSH_OK, SSH_ERROR} : closure(t, res)
    \/ \E t \in Threads : initialize_check(t)
    \/ \E t \in Threads, sess \in Handles \cup {NULL_SESSION} : Session_new_alloc(t, sess)
    \/ \E h \in Handles : DropSession(h)
    \/ ProcessExit

Spec == Init /\ [][Next]_vars

\* The state after the main thread created n sessions, each by a Session::new
\* that succeeded (so the engine was initialized once, successfully)
SessionsCreated(n) ==
    /\ INIT = "Complete"
    /\ LIB = "Some"
    /\ nInit = 1
    /\ nFinalize = 0
    /\ exited = FALSE
    /\ pc = [t \in Threads |-> "idle"]
    /\ calls = n
    /\ ret = [t \in Threads |-> IF t = 1 THEN Ok("Session") ELSE NoRet]
    /\ handle = [h \in Handles |-> IF h <= n THEN "live" ELSE "unused"]
    /\ nFree = [h \in Handles |-> 0]
    /\ strong = [h \in Handles |-> IF h <= n THEN 1 ELSE 0]
    /\ sessAlive = [h \in Handles |-> h <= n]
    /\ nChan = [h \in Handles |-> 0]
    /\ slot = [h \in Handles |-> NoError]
    /\ blocking = [h \in Handles |-> TRUE]

\* no session has been operated on since
InitSessions(n) ==
    /\ SessionsCreated(n)
    /\ last = NoCall
    /\ FreshEngine

InitOwn == InitSessions(MaxHandles)

\* Sessions open channels; sessions and channels are dropped in any order
NextOwn ==
    \/ \E h \in Handles, chan \in {NULL, "chan"}, w \in FewFailWrites :
          new_channel(h, chan, w)
    \/ \E h \in Handles, o \in AcceptOutcomes, p \in {0, 8022}, w \in FewFailWrites :
          accept_forward(h, Ms(0, 50), o, p, w)
    \/ \E h \in Handles : DropSession(h)
    \/ \E h \in Handles : DropChannel(h)

SpecOwn == InitOwn /\ [][NextOwn]_vars

\* The state after the main thread created one session, named its host and
\* connected it, every call having succeeded
InitErr ==
    /\ SessionsCreated(1)
    /\ cfg = [h \in Handles |->
                IF h = 1 THEN cfg_after(FreshCfg, Option("Hostname", <<"example.org">>, 0),
                                        SSH_OK)
                ELSE FreshCfg]
    /\ connected = [h \in Handles |-> h = 1]
    /\ authst = [h \in Handles |-> FreshAuth]
    /\ ghost = [h \in Handles |-> FreshGhost]
    /\ last = Call("connect", 1, 0, SSH_OK, "n/a", 0, Keep, FALSE,
                   basic_status(NoError, SSH_OK, "ssh_connect failed"))

\* One session is operated on, every engine outcome being possible
NextErr ==
    \/ \E res \in WaitingStatuses(1) : \E w \in StatusWrites(res) : connect(1, res, w)
    \/ \E t \in OptDurations : \E res \in FlushStatuses(1, t) :
          \E w \in StatusWrites(res) : blocking_flush(1, t, res, w)
    \/ \E res \in PlainStatuses : \E w \in StatusWrites(res) :
          update_known_hosts_file(1, res, w)
    \/ \E res \in KnownHostsResults : \E w \in KnownHostsWrites(res) :
          is_known_server(1, res, w)
    \/ \E res \in PlainStatuses : \E w \in StatusWrites(res) :
          set_option(1, Option("Hostname", <<"example.org">>, 0), res, w)
    \/ \E p \in RequestPorts, res \in WaitingStatuses(1), b \in EnginePorts :
          \E w \in StatusWrites(res) : listen_forward(1, p, res, b, w)
    \/ \E b \in BOOLEAN : set_blocking(1, b)
    \/ \E res \in AuthResults(1) : \E w \in AuthWrites(res) : userauth_none(1, res, w)
    \/ \E res \in AuthResults(1) : \E w \in AuthWrites(res) :
          userauth_public_key_auto(1, res, w)
    \/ \E res \in AuthResults(1) : \E w \in AuthWrites(res) :
          userauth_password(1, res, w)
    \/ \E res \in AuthResults(1) : \E w \in AuthWrites(res) :
          userauth_keyboard_interactive(1, res, w, 0)
    \/ \E chan \in {NULL, "chan"}, w \in FailWrites : new_channel(1, chan, w)
    \/ \E t \in Durations, o \in AcceptOutcomes, p \in EnginePorts,
          w \in FailWrites \cup {Clear} : accept_forward(1, t, o, p, w)
    \/ DropChannel(1)

SpecErr == InitErr /\ [][NextErr]_vars

\* bounds of the runs below
MaxCycles == 2
MaxSets == 2
MaxIdentities == 2

InitConn == InitSessions(1)

\* One fresh session is given a host or a socket, connected and disconnected;
\* while it is connected, keys of its server are hashed
NextConn ==
    \/ \E res \in PlainStatuses : \E w \in StatusWrites(res) \cap FewFailWrites :
          set_option(1, Option("Hostname", <<"example.org">>, 0), res, w)
    \/ \E res \in PlainStatuses : \E w \in StatusWrites(res) \cap FewFailWrites :
          set_option(1, Option("Socket", <<>>, 7), res, w)
    \/ \E res \in {SSH_OK, SSH_ERROR}, w \in FewFailWrites : connect(1, res, w)
    \/ /\ connected[1] => ghost[1].cycles < MaxCycles
       /\ disconnect(1)
    \/ is_connected(1)
    \/ /\ connected[1]
       /\ \E k \in Keys, t \in HashTypes, hres \in {"ok", "fail"} :
             get_public_key_hash(k, t, hres)
    \/ /\ connected[1]
       /\ \E k \in Keys, t \in HashTypes, hres \in {"ok", "fail"}, xres \in {"ok", "null"} :
             get_public_key_hash_hexa(k, t, hres, xres)

SpecConn == InitConn /\ [][NextConn]_vars

\* SshOption values the caller passes: every variant, and strings with a NUL
OptionInputs ==
    {Option("LogLevel", <<"Packet">>, 0),
     Option("Hostname", <<"example.org">>, 0),
     Option("Hostname", <<"ad\\0min">>, 0),
     Option("BindAddress", <<"10.0.0.1">>, 0),
     Option("AddIdentity", <<"id_ed25519">>, 0),
     Option("User", <<>>, 0),
     Option("User", <<"alice">>, 0),
     Option("User", <<"ad\\0min">>, 0),
     Option("SshDir", <<"/etc/ssh">>, 0),
     Option("SshDir", <<"ad\\0min">>, 0),
     Option("KnownHosts", <<>>, 0),
     Option("KnownHosts", <<"known_hosts">>, 0),
     Option("Port", <<>>, 2222),
     Option("Socket", <<>>, 7),
     Option("Timeout", <<>>, 50)}

\* the number of keys of store c that no longer hold what ssh_new left
Configured(c) == Cardinality({f \in DOMAIN c : c[f] # FreshCfg[f]})

InitOpt == InitSessions(1)

\* One fresh session is configured, at most MaxSets keys apart from a fresh
\* store and with at most MaxIdentities identities, and asked for its user
NextOpt ==
    \/ \E o \in OptionInputs, res \in PlainStatuses, w \in FewFailWrites :
          /\ set_option_early(o) \/
                /\ Configured(cfg_after(cfg[1], o, SSH_OK)) <= MaxSets
                /\ Len(cfg_after(cfg[1], o, SSH_OK).identities) <= MaxIdentities
          /\ set_option(1, o, res, w)
    \/ \E w \in FewFailWrites : get_user_name(1, w)

SpecOpt == InitOpt /\ [][NextOpt]_vars

MaxPrompts == 2

\* answer lists of up to MaxPrompts + 1 answers
AnswerLists ==
    UNION {[1..k -> AnswerStrings] : k \in 0..(MaxPrompts + 1)}

InitAuth == InitErr

\* One connected session authenticates: method list, none, keyboard-interactive
NextAuth ==
    \/ \E v \in MethodValues : userauth_list(1, v)
    \/ \E res \in AuthResults(1) : \E w \in AuthWrites(res) \cap FewFailWrites :
          userauth_none(1, res, w)
    \/ \E res \in AuthResults(1), n \in 0..MaxPrompts :
          \E w \in AuthWrites(res) \cap FewFailWrites :
             userauth_keyboard_interactive(1, res, w, n)
    \/ \E answers \in AnswerLists, f \in 0..(MaxPrompts + 1), w \in FewFailWrites :
          userauth_keyboard_interactive_set_answers(1, answers, f, w)
    \/ \E ub \in {"crash", "read"} : userauth_keyboard_interactive_info(1, ub)

SpecAuth == InitAuth /\ [][NextAuth]_vars

\* The two operations that take a timeout, on one connected session, with
\* timeouts of every size
InitTime == InitErr

NextTime ==
    \/ \E t \in OptWideDurations : \E res \in FlushStatuses(1, t) :
          \E w \in StatusWrites(res) : blocking_flush(1, t, res, w)
    \/ \E t \in WideDurations, o \in AcceptOutcomes, p \in EnginePorts,
          w \in FailWrites \cup {Clear} : accept_forward(1, t, o, p, w)
    \/ \E b \in BOOLEAN : set_blocking(1, b)
    \/ DropChannel(1)

SpecTime == InitTime /\ [][NextTime]_vars

(* ================================ claims ============================== *)

\* C1: however many threads call Session::new, and however their steps
\* interleave, sys::ssh_init() is executed at most once in the process.
C1_InitAtMostOnce == nInit <= 1

\* C1 witness: two different threads have both returned from Session::new and
\* ssh_init has run once.
C1_Witness ==
    /\ nInit = 1
    /\ \E t1 \in Threads, t2 \in Threads :
          t1 # t2 /\ ret[t1] # NoRet /\ ret[t2] # NoRet

\* C2: the outcome of the first initialization is permanent. Once the closure
\* has completed, no step re-runs ssh_init or changes LIB. If it failed, every
\* return of Session::new, from any thread, is Fatal("ssh_init failed"), no
\* thread reaches ssh_new and no session exists. If it succeeded, no
\* Session::new returns the initialization failure.
C2_InitOutcomePermanent ==
    /\ [][INIT = "Complete" =>
            (INIT' = "Complete" /\ LIB' = LIB /\ nInit' = nInit)]_vars
    /\ [](INIT # "Complete" => \A t \in Threads : ret[t] = NoRet)
    /\ []((INIT = "Complete" /\ LIB = "None") =>
            /\ \A t \in Threads :
                  /\ ret[t] \in {NoRet, Fatal("ssh_init failed")}
                  /\ pc[t] # "ssh_new"
            /\ \A h \in Handles : handle[h] = "unused")
    /\ []((INIT = "Complete" /\ LIB = "Some") =>
            \A t \in Threads : ret[t] # Fatal("ssh_init failed"))

\* C2 witness: initialization failed, and afterwards every thread got the
\* fatal error, one of them from a second call.
C2_Witness ==
    /\ INIT = "Complete" /\ LIB = "None" /\ nInit = 1
    /\ calls > NThreads
    /\ \A t \in Threads : pc[t] = "idle" /\ ret[t] = Fatal("ssh_init failed")

\* C3 (as claimed): after a successful initialization ssh_finalize runs exactly
\* once when the process ends (here: ends with no Session::new under way), it
\* never runs twice, and it does not run while the process goes on.
C3_FinalizeOnceAtExit ==
    /\ (exited /\ LIB = "Some" /\ \A t \in Threads : pc[t] = "idle") => nFinalize = 1
    /\ nFinalize <= 1
    /\ nFinalize = 1 => exited

\* C4: for every session handle, whatever channels were opened from it and in
\* whatever order the Session and the Channels are dropped, ssh_free is called
\* at most once, and it has been called exactly when no owner is left: the
\* drop of the last owner is the one that releases the handle.
C4_FreedOnceByLastOwner ==
    \A h \in Handles :
        handle[h] # "unused" =>
            /\ nFree[h] <= 1
            /\ (nFree[h] = 1) <=> (~sessAlive[h] /\ nChan[h] = 0)
            /\ (handle[h] = "freed") <=> (nFree[h] = 1)

\* C4 witness: a session that had channels opened from it (the latest session
\* operation was a successful channel creation on it) has been released.
C4_Witness ==
    /\ last.op \in {"new_channel", "accept_forward"}
    /\ last.ret.kind = "Ok"
    /\ nFree[last.h] = 1

\* C5: while a Channel created from a session exists, the session's engine
\* handle has not been freed, also when the Session value was dropped first.
C5_ChannelKeepsHandle ==
    \A h \in Handles : nChan[h] > 0 => (handle[h] = "live" /\ nFree[h] = 0)

\* C5 witness: the Session value is gone and channels of it are still alive.
C5_Witness ==
    \E h \in Handles : ~sessAlive[h] /\ nChan[h] = MaxChan /\ handle[h] = "live"

\* the static description each status-returning operation falls back to
Fallback(op) ==
    CASE op = "connect" -> "ssh_connect failed"
      [] op = "blocking_flush" -> "blocking_flush"
      [] op = "update_known_hosts_file" -> "error updating known hosts file"
      [] op = "set_option" -> "failed to set option"
      [] op = "listen_forward" -> "error in ssh_channel_listen_forward"
      [] op \in AuthOps -> "authentication error"
      [] OTHER -> "?"

\* the text a caller reads for an engine reason
ReasonText(r) ==
    CASE r = NULL -> ""
      [] r = "Hostname required" -> "Hostname required"
      [] r = "denied\\xFF" -> "denied<U+FFFD>"

\* the error a recorded slot stands for: RequestDenied for the request-denied
\* code, Fatal for every other code
SlotError(s) ==
    [kind |-> IF s.code = SSH_REQUEST_DENIED THEN "RequestDenied" ELSE "Fatal",
     reason |-> ReasonText(s.reason), val |-> "-"]

StatusOps == {"connect", "blocking_flush", "update_known_hosts_file",
              "set_option", "listen_forward"}

\* C6 (as claimed): an error returned with the reason of the session's
\* last-error slot was recorded by the engine call that just failed, never
\* left there by an earlier operation.
C6_ErrorsAttributable ==
    (/\ last.op # "none"
     /\ last.ret.kind \in {"RequestDenied", "Fatal"}
     /\ slot[last.h].code # SSH_NO_ERROR
     /\ last.ret = SlotError(slot[last.h]))
        => last.wrote

\* C7: translation of a status. A success status yields Ok. A failing status
\* (neither success nor would-block) with an error in the slot yields that
\* error: RequestDenied(reason) for the request-denied code, Fatal(reason) for
\* every other code, the reason being the engine's text. The operation's static
\* description is returned only when the slot reports no error.
C7_StatusTranslation ==
    last.op \in StatusOps =>
        LET s == slot[last.h] IN
        /\ last.res = SSH_OK => last.ret.kind = "Ok"
        /\ (last.res \notin {SSH_OK, SSH_AGAIN} /\ s.code # SSH_NO_ERROR) =>
              last.ret = SlotError(s)
        /\ (last.res \notin {SSH_OK, SSH_AGAIN} /\ s.code = SSH_NO_ERROR) =>
              last.ret = Fatal(Fallback(last.op))
        /\ last.ret = Fatal(Fallback(last.op)) => s.code = SSH_NO_ERROR

\* C7 witness: connect failed and the peer's refusal, recorded by the engine
\* with a reason that is not valid UTF-8, came back as RequestDenied.
C7_Witness ==
    /\ last.op = "connect"
    /\ last.res = SSH_ERROR
    /\ slot[1].code = SSH_REQUEST_DENIED
    /\ last.ret = RequestDenied("denied<U+FFFD>")

\* C8 (as claimed): an accept_forward whose timeout ran out with no inbound
\* connection returns TryAgain, whatever happened on the session before.
C8_AcceptTimeoutTryAgain ==
    (last.op = "accept_forward" /\ last.timeout) => last.ret = TryAgain

\* C9 (as claimed): on a non-blocking session, every status-returning
\* operation whose engine call reports SSH_AGAIN returns TryAgain.
C9_AgainIsTryAgain ==
    (/\ last.op \in StatusOps
     /\ ~blocking[last.h]
     /\ last.res = SSH_AGAIN)
        => last.ret = TryAgain

\* the AuthStatus named like an engine result
AuthStatusOf(res) ==
    CASE res = SSH_AUTH_SUCCESS -> "Success"
      [] res = SSH_AUTH_DENIED -> "Denied"
      [] res = SSH_AUTH_PARTIAL -> "Partial"
      [] res = SSH_AUTH_INFO -> "Info"
      [] res = SSH_AUTH_AGAIN -> "Again"

\* C10: the four authentication entry points translate the engine result the
\* same way: success, denied, partial, info and again yield Ok with the
\* AuthStatus of that name; any other result yields Err, the error of the slot
\* if it holds one and Fatal("authentication error") otherwise.
C10_AuthTranslation ==
    last.op \in AuthOps =>
        IF last.res \in {SSH_AUTH_SUCCESS, SSH_AUTH_DENIED, SSH_AUTH_PARTIAL,
                         SSH_AUTH_INFO, SSH_AUTH_AGAIN}
          THEN last.ret = Ok(AuthStatusOf(last.res))
          ELSE IF slot[last.h].code # SSH_NO_ERROR
                 THEN last.ret = SlotError(slot[last.h])
                 ELSE last.ret = Fatal("authentication error")

\* C10 witness: keyboard-interactive authentication on a non-blocking session
\* was told to come back later and returned Ok(Again).
C10_Witness ==
    /\ last.op = "userauth_keyboard_interactive"
    /\ ~blocking[1]
    /\ last.res = SSH_AUTH_AGAIN
    /\ last.ret = Ok("Again")

\* the KnownHosts variant the specification names for each engine value
KnownHostsOf(res) ==
    CASE res = SSH_KNOWN_HOSTS_NOT_FOUND -> "NotFound"
      [] res = SSH_KNOWN_HOSTS_UNKNOWN -> "Unknown"
      [] res = SSH_KNOWN_HOSTS_OK -> "Ok"
      [] res = SSH_KNOWN_HOSTS_CHANGED -> "Changed"
      [] res = SSH_KNOWN_HOSTS_OTHER -> "Other"
      [] OTHER -> "none"

\* C11: is_known_server returns exactly one of the five outcomes NotFound,
\* Unknown, Ok, Changed, Other when the engine returns the matching value, and
\* a Fatal error (not RequestDenied, not TryAgain, not an Ok value) for any
\* other engine result.
C11_KnownServerOutcomes ==
    last.op = "is_known_server" =>
        IF KnownHostsOf(last.res) # "none"
          THEN last.ret = Ok(KnownHostsOf(last.res))
          ELSE last.ret.kind = "Fatal"


\* C12: right after Session::new succeeded, before anything else is called on
\* the session, is_connected() is false and last_error() is None.
C12_FreshSession ==
    \A h \in Handles :
        (handle[h] = "live" /\ last.h # h) =>
            /\ is_connected_value(connected[h]) = FALSE
            /\ last_error(slot[h]) = NoRet

C12_Witness ==
    \E t \in Threads, h \in Handles :
        /\ ret[t] = Ok("Session")
        /\ handle[h] = "live"
        /\ sessAlive[h]
        /\ last.h # h


\* C13 as stated: connect on a session whose hostname option has never been
\* set returns Err(Fatal("Hostname required")), the engine's reason and not the
\* fallback "ssh_connect failed", and leaves the session not connected.
C13_HostnameRequired ==
    (last.op = "connect" /\ cfg[last.h].host = NULL) =>
        /\ last.ret = Fatal("Hostname required")
        /\ ~connected[last.h]

\* C13, amended: connect on a session whose hostname option and socket option
\* have never been set returns Err(Fatal("Hostname required")), the engine's
\* reason and not the fallback, and leaves the session not connected.
C13_NoHostNoSocket ==
    (last.op = "connect" /\ cfg[last.h].host = NULL /\ cfg[last.h].fd = FreshCfg.fd) =>
        /\ last.ret = Fatal("Hostname required")
        /\ ~connected[last.h]

C13_Witness ==
    /\ last.op = "connect"
    /\ cfg[1].host = NULL
    /\ cfg[1].fd = FreshCfg.fd
    /\ last.ret = Fatal("Hostname required")

\* C14: a session becomes connected only through a successful connect;
\* disconnect leaves it not connected with its options retained; and connect
\* can succeed again afterwards, for any number of connect/disconnect cycles.
C14_Lifecycle ==
    /\ [][\A h \in Handles :
            (connected'[h] /\ ~connected[h]) =>
                (last'.op = "connect" /\ last'.h = h /\ last'.ret = Ok("unit"))]_vars
    /\ [][last'.op = "disconnect" => cfg' = cfg]_vars
    /\ [](last.op = "disconnect" => ~connected[last.h])

C14_Witness ==
    /\ ghost[1].cycles = MaxCycles
    /\ connected[1]
    /\ last.op = "connect"
    /\ cfg[1].host # NULL


\* C15: userauth_keyboard_interactive_set_answers called with a number of
\* answers different from the number of prompts the server issued is rejected
\* with an error; it never returns Ok after recording a subset of the answers or
\* after dropping surplus answers.
C15_AnswerCountChecked ==
    (last.op = "set_answers" /\ last.arg # authst[last.h].nprompts) => IsErr(last.ret)


\* the bits of the six methods the specification names
NamedMethods ==
    {SSH_AUTH_METHOD_NONE, SSH_AUTH_METHOD_PASSWORD, SSH_AUTH_METHOD_PUBLICKEY,
     SSH_AUTH_METHOD_HOSTBASED, SSH_AUTH_METHOD_INTERACTIVE, SSH_AUTH_METHOD_GSSAPI_MIC}

\* C19: the set userauth_list returns contains only members of the six named
\* methods none, password, public-key, host-based, interactive, gssapi-mic, for
\* every value the engine can return from its method-list query.
C19_OnlyNamedMethods ==
    last.op = "userauth_list" => last.bits \subseteq NamedMethods

\* C20: userauth_list called before any userauth_none call on the session
\* never returns a Fatal error; it returns Ok with the set the engine reports,
\* empty or pre-negotiation.
C20_ListBeforeNone ==
    (last.op = "userauth_list" /\ ~ghost[last.h].noneCalled) =>
        /\ last.ret = Ok("AuthMethods")
        /\ last.bits = {b \in {1, 2, 4, 8, 16, 32, 64} : (last.arg \div b) % 2 = 1}

C20_Witness ==
    /\ last.op = "userauth_list"
    /\ ~ghost[1].noneCalled
    /\ last.arg = 0
    /\ last.ret.kind = "Ok"
    /\ last.bits = {}


\* C16: a string argument holding an embedded NUL yields an error and is never
\* passed to the engine truncated or replaced by the absent / use-default value
\* (here: the string of set_option's Hostname, BindAddress, AddIdentity, User,
\* SshDir and KnownHosts).
C16_NulRejected ==
    (/\ last.op = "set_option"
     /\ last.opt.s # <<>>
     /\ HasNul(last.opt.s[1])) =>
        /\ IsErr(last.ret)
        /\ ~last.called

\* C17: after set_option(User(Some(u))) succeeded, get_user_name returns u, for
\* every string u; after set_option(User(None)) succeeded it returns the
\* engine's default user name, whatever was set before.
C17_UserRoundTrip ==
    (last.op = "get_user_name" /\ ghost[last.h].userSet) =>
        last.ret = Ok(IF ghost[last.h].userArg = <<>> THEN LocalUser
                      ELSE ghost[last.h].userArg[1])

\* the configuration key the specification gives each option
ExpectedKey(opt) ==
    CASE opt = "Hostname" -> "host"
      [] opt = "Port" -> "port"
      [] opt = "LogLevel" -> "log"
      [] opt = "BindAddress" -> "bindaddr"
      [] opt = "AddIdentity" -> "identities"
      [] opt = "User" -> "user"
      [] opt = "SshDir" -> "sshdir"
      [] opt = "KnownHosts" -> "knownhosts"
      [] opt = "Socket" -> "fd"
      [] opt = "Timeout" -> "timeout"

\* a set_option call changes no key but the one of its option
OneKeyWritten ==
    [][last'.op = "set_option" =>
          \A h \in Handles :
             \A f \in DOMAIN cfg[h] :
                (h # last'.h \/ f # ExpectedKey(last'.opt.opt)) => cfg'[h][f] = cfg[h][f]]_vars

\* C18 as stated: each SshOption variant writes exactly one engine key and no
\* other, and for every option the same set_option applied twice leaves the
\* engine configuration equal to applying it once.
C18_OneKeyIdempotent ==
    /\ OneKeyWritten
    /\ []((last.op = "set_option" /\ last.rep /\ last.ret.kind = "Ok") => ~last.changed)

\* C18, amended: each SshOption variant writes exactly one engine key and no
\* other, and for every option except add-identity the same set_option applied
\* twice leaves the engine configuration equal to applying it once;
\* add-identity puts one more entry at the head of the identity list each time.
C18_OneKeyIdempotentButIdentity ==
    /\ OneKeyWritten
    /\ []((last.op = "set_option" /\ last.rep /\ last.ret.kind = "Ok") =>
            IF last.opt.opt = "AddIdentity"
              THEN /\ last.changed
                   /\ Len(cfg[last.h].identities) >= 2
                   /\ cfg[last.h].identities[1] = last.opt.s[1]
                   /\ cfg[last.h].identities[2] = last.opt.s[1]
              ELSE ~last.changed)

C18_Witness ==
    /\ last.op = "set_option"
    /\ last.rep
    /\ last.ret.kind = "Ok"
    /\ last.opt.opt = "KnownHosts"
    /\ cfg[1].knownhosts = "known_hosts"
    /\ cfg[1].sshdir = FreshCfg.sshdir


\* C21: no session operation panics when the engine reports failure; in
\* particular userauth_keyboard_interactive_info, called in any state (also
\* before any keyboard-interactive call returned Info, when the engine reports
\* an error or a negative prompt count), returns a result, zero prompts or an
\* error, instead of panicking.
C21_InfoNeverPanics ==
    last.op = "info" => (last.ret.kind = "Ok" \/ IsErr(last.ret))


\* C22: on success listen_forward returns the port the peer bound: a nonzero
\* peer-chosen port when the requested port is 0 and the requested port when it
\* is nonzero; on failure it returns an error and no port.
C22_BoundPort ==
    last.op = "listen_forward" =>
        IF last.res = SSH_OK
          THEN /\ last.ret.kind = "Ok"
               /\ last.arg = 0 => last.port # 0
               /\ last.arg # 0 => last.port = last.arg
          ELSE IsErr(last.ret)


\* C23: there is no automatic retry: every session operation issues its
\* engine request at most once per call and returns that call's outcome to the
\* immediate caller; a would-block outcome (TryAgain / AuthStatus::Again) is
\* returned to the caller rather than retried internally.
C23_NoRetry ==
    /\ \A i, j \in DOMAIN last.reqs : i # j => last.reqs[i] # last.reqs[j]
    /\ (last.op \in {"connect", "blocking_flush"} /\ last.res = SSH_AGAIN) =>
            last.ret = TryAgain
    /\ (last.op \in AuthOps /\ last.res = SSH_AUTH_AGAIN) => last.ret = Ok("Again")
    /\ (last.op = "listen_forward" /\ last.res = SSH_AGAIN) => IsErr(last.ret)

C23_Witness ==
    /\ last.op = "connect"
    /\ last.res = SSH_AGAIN
    /\ last.ret = TryAgain
    /\ Len(last.reqs) = 1


\* the digest length of each hash type, in bytes
DigestLen(t) == CASE t = "Sha1" -> 20 [] t = "Md5" -> 16 [] t = "Sha256" -> 32

\* two lowercase hexadecimal digits per byte, nothing in between
PlainHex(b) ==
    [j \in 1..(2 * Len(b)) |->
        LET d == IF j % 2 = 1 THEN b[(j + 1) \div 2] \div 16 ELSE b[j \div 2] % 16
        IN  CASE d = 0 -> "0" [] d = 1 -> "1" [] d = 2 -> "2" [] d = 3 -> "3"
              [] d = 4 -> "4" [] d = 5 -> "5" [] d = 6 -> "6" [] d = 7 -> "7"
              [] d = 8 -> "8" [] d = 9 -> "9" [] d = 10 -> "a" [] d = 11 -> "b"
              [] d = 12 -> "c" [] d = 13 -> "d" [] d = 14 -> "e" [] d = 15 -> "f"]

\* C24: for each of the three hash types get_public_key_hash_hexa(t) is the
\* hexadecimal rendering of exactly the bytes get_public_key_hash(t) returns for
\* the same key: its length is twice the digest length, lowercase, with no
\* separators; and it fails with Fatal whenever the raw hash computation fails.
C24_HexaOfHash ==
    last.op = "get_public_key_hash_hexa" =>
        /\ last.res # 0 => last.ret.kind = "Fatal"
        /\ last.ret.kind = "Ok" =>
              /\ last.bytes = get_public_key_hash_result(last.arg, last.hash, "ok").bytes
              /\ Len(last.hexa) = 2 * DigestLen(last.hash)
              /\ last.hexa = PlainHex(last.bytes)


\* C25: the keyboard-interactive exchange is positional:
\* userauth_keyboard_interactive_info returns exactly the engine's prompt count
\* of prompts, in index order 0..n-1, each with its echo flag, and
\* userauth_keyboard_interactive_set_answers records the answer at input index i
\* as the answer to prompt i, in increasing index order, stopping at the first
\* index whose recording fails.
C25_Positional ==
    /\ []((last.op = "info" /\ last.ret.kind = "Ok") =>
            /\ Len(last.info) = authst[last.h].nprompts
            /\ \A i \in 1..Len(last.info) :
                  /\ last.info[i].prompt = EnginePrompt(i).text
                  /\ last.info[i].echo = (EnginePrompt(i).echo = 1))
    /\ [](last.op = "set_answers" =>
            /\ \A i \in 1..Len(last.reqs) : last.reqs[i].idx = i - 1
            /\ last.stop = 0 <=> last.ret.kind = "Ok"
            /\ last.stop = 0 => Len(last.reqs) = Len(last.ans))
    /\ [][last'.op = "set_answers" =>
            \A i \in 1..authst[last'.h].nprompts :
               authst'[last'.h].answers[i] =
                  IF i <= Len(last'.ans) /\ (last'.stop = 0 \/ i < last'.stop)
                    THEN last'.ans[i]
                    ELSE authst[last'.h].answers[i]]_vars

C25_Witness ==
    /\ last.op = "set_answers"
    /\ authst[1].nprompts = 2
    /\ Len(last.ans) = 2
    /\ last.stop = 2
    /\ IsErr(last.ret)
    /\ authst[1].answers = <<"yes", NULL>>

\* C26: when userauth_keyboard_interactive_set_answers returns an error, the
\* session's recorded answers are unchanged from before the call: no prefix of
\* the supplied answers has been recorded.
C26_AnswersAllOrNothing ==
    [][(last'.op = "set_answers" /\ IsErr(last'.ret)) => authst' = authst]_vars


\* C27: in the status translation used by connect and blocking_flush, a
\* would-block status takes precedence over the last-error slot: the result is
\* TryAgain even when the slot holds an error, stale or just recorded.
C27_AgainBeforeSlot ==
    (/\ last.op \in {"connect", "blocking_flush"}
     /\ last.res = SSH_AGAIN
     /\ slot[last.h].code # SSH_NO_ERROR)
        => last.ret = TryAgain

\* C27 witness: a flush would block while the slot holds a fatal error, and
\* the caller is told to try again.
C27_Witness ==
    /\ last.op = "blocking_flush"
    /\ last.res = SSH_AGAIN
    /\ slot[last.h].code = SSH_FATAL
    /\ last.ret = TryAgain


\* C28 (as claimed): a finite timeout never becomes an unbounded wait. For every
\* Duration t, blocking_flush(Some(t)) and accept_forward(t) pass the engine a
\* non-negative millisecond count equal to t; only blocking_flush(None) passes
\* -1, the engine's "wait indefinitely".
C28_FiniteTimeoutStaysFinite ==
    /\ (last.op \in {"blocking_flush", "accept_forward"} /\ last.dur # <<>>) =>
          /\ last.arg >= 0
          /\ Ms(0, last.arg) = last.dur[1]
    /\ (last.op = "blocking_flush" /\ last.dur = <<>>) => last.arg = -1


\* C29: a channel-creation attempt (new_channel, accept_forward) that fails
\* changes the ownership of its session in nothing, and one that succeeds adds
\* exactly one owner: the new Channel. Neither releases a handle. (Every step
\* that drops no Session and no Channel is such an attempt.)
C29_ChannelCreationOwnership ==
    [][(sessAlive' = sessAlive /\ \A g \in Handles : nChan'[g] >= nChan[g]) =>
          LET h == last'.h IN
          /\ last'.op \in {"new_channel", "accept_forward"}
          /\ IF last'.ret.kind = "Ok"
               THEN /\ strong' = [strong EXCEPT ![h] = strong[h] + 1]
                    /\ nChan' = [nChan EXCEPT ![h] = nChan[h] + 1]
               ELSE /\ strong' = strong
                    /\ nChan' = nChan
          /\ handle' = handle
          /\ nFree' = nFree]_vars

\* C29 witness: a channel was created from a session, and a later attempt on
\* the same session failed, leaving the session with its two owners.
C29_Witness ==
    /\ last.op = "new_channel"
    /\ IsErr(last.ret)
    /\ sessAlive[last.h]
    /\ nChan[last.h] = 1
    /\ strong[last.h] = 2


\* C30: every handle passed to ssh_free is a non-null handle that ssh_new
\* returned. A handle ssh_new never returned has no owner and is never freed;
\* a Session::new that returns Ok has wrapped exactly one handle, new from
\* ssh_new, in one holder; and a Session::new whose ssh_new returned null
\* returns Fatal("ssh_new failed"), creates no holder and releases nothing.
C30_OnlyNewHandlesFreed ==
    /\ [](\A h \in Handles :
            /\ handle[h] = "unused" => (strong[h] = 0 /\ nFree[h] = 0 /\ ~sessAlive[h])
            /\ nFree[h] > 0 => handle[h] = "freed")
    /\ [][\A t \in Threads :
            (pc[t] = "ssh_new" /\ pc'[t] = "idle") =>
                \/ /\ ret'[t] = Fatal("ssh_new failed")
                   /\ UNCHANGED <<handle, strong, sessAlive, nFree>>
                \/ /\ ret'[t] = Ok("Session")
                   /\ nFree' = nFree
                   /\ \E h \in Handles :
                         /\ handle[h] = "unused"
                         /\ handle' = [handle EXCEPT ![h] = "live"]
                         /\ strong' = [strong EXCEPT ![h] = 1]
                         /\ sessAlive' = [sessAlive EXCEPT ![h] = TRUE]]_vars

\* C30 witness: one session was created and released, and a later Session::new
\* whose ssh_new returned null reported it, the second handle never used.
C30_Witness ==
    /\ \E t \in Threads : ret[t] = Fatal("ssh_new failed")
    /\ nFree[1] = 1
    /\ handle[2] = "unused"
    /\ nFree[2] = 0

====
